---- MODULE Spec2Model ----
(***************************************************************************)
(* A model of the separable-filter image resampler (resampler.cpp):        *)
(* the boundary resolver, the contributor-list builder with its            *)
(* single-precision arithmetic, the constructor and the put_line/get_line  *)
(* streaming engine with its fixed-capacity scan buffer.                   *)
(***************************************************************************)
EXTENDS Integers, Sequences, FiniteSets, TLC

(***************************************************************************)
(* A local variable: Bind(v, LAMBDA x : e) is e with x standing for the    *)
(* value v, computed once.                                                 *)
(***************************************************************************)
Bind(v, F(_)) == F(v)

(***************************************************************************)
(* Machine integers                                                        *)
(***************************************************************************)
INT_MAX == 2147483647
INT_MIN == -2147483647 - 1

Pow2Tab ==
    << 1, 2, 4, 8, 16, 32, 64, 128, 256, 512, 1024, 2048, 4096, 8192,
       16384, 32768, 65536, 131072, 262144, 524288, 1048576, 2097152,
       4194304, 8388608, 16777216, 33554432, 67108864, 134217728,
       268435456, 536870912, 1073741824 >>

\* 2^n for 0 <= n <= 30
Pow2(n) == Pow2Tab[n + 1]

\* the number of bits of n, 0 <= n < 2^31
BitLen(n) ==
    IF n = 0 THEN 0 ELSE
    IF n < 32768 THEN (IF n < 128 THEN (IF n < 8 THEN (IF n < 2 THEN (1)
    ELSE (IF n < 4 THEN (2) ELSE (3))) ELSE (IF n < 32 THEN (IF n < 16
    THEN (4) ELSE (5)) ELSE (IF n < 64 THEN (6) ELSE (7)))) ELSE (IF n <
    2048 THEN (IF n < 512 THEN (IF n < 256 THEN (8) ELSE (9)) ELSE (IF n
    < 1024 THEN (10) ELSE (11))) ELSE (IF n < 8192 THEN (IF n < 4096
    THEN (12) ELSE (13)) ELSE (IF n < 16384 THEN (14) ELSE (15))))) ELSE
    (IF n < 8388608 THEN (IF n < 524288 THEN (IF n < 131072 THEN (IF n <
    65536 THEN (16) ELSE (17)) ELSE (IF n < 262144 THEN (18) ELSE (19)))
    ELSE (IF n < 2097152 THEN (IF n < 1048576 THEN (20) ELSE (21)) ELSE
    (IF n < 4194304 THEN (22) ELSE (23)))) ELSE (IF n < 134217728 THEN
    (IF n < 33554432 THEN (IF n < 16777216 THEN (24) ELSE (25)) ELSE (IF
    n < 67108864 THEN (26) ELSE (27))) ELSE (IF n < 536870912 THEN (IF n
    < 268435456 THEN (28) ELSE (29)) ELSE (IF n < 1073741824 THEN (30)
    ELSE (31)))))

Abs(x) == IF x < 0 THEN -x ELSE x
Sgn(x) == IF x < 0 THEN -1 ELSE IF x > 0 THEN 1 ELSE 0

(***************************************************************************)
(* Resample_Real: IEEE-754 binary32, round to nearest even, every          *)
(* operation rounded to single precision.  A value is <<m, e>> meaning     *)
(* m * 2^e with 2^23 <= |m| < 2^24, or <<0, 0>> for zero.  All values the  *)
(* builder produces are normal numbers; NaN and infinity arise only from   *)
(* 1.0f / 0.0f in make_clist, which is handled there.                      *)
(***************************************************************************)
MantBits == 24
FZero == <<0, 0>>
FIsZero(a) == a[1] = 0
FNeg(a) == <<-a[1], a[2]>>

\* round the magnitude M * 2^e (M > 0) to MantBits bits, ties to even
FRound(sign, M, e) ==
    IF M = 0 THEN FZero
    ELSE Bind(BitLen(M), LAMBDA nb :
        IF nb <= MantBits
        THEN <<sign * M * Pow2(MantBits - nb), e - (MantBits - nb)>>
        ELSE LET sh   == nb - MantBits
                 q    == M \div Pow2(sh)
                 r    == M % Pow2(sh)
                 half == Pow2(sh - 1)
                 up   == (r > half) \/ (r = half /\ q % 2 = 1)
             IN  Bind(IF up THEN q + 1 ELSE q, LAMBDA q2 :
                     IF q2 = Pow2(MantBits)
                     THEN <<sign * Pow2(MantBits - 1), e + sh + 1>>
                     ELSE <<sign * q2, e + sh>>))

\* conversion of an int to Resample_Real (exact for |n| < 2^24)
IntToF(n) ==
    IF n = INT_MIN THEN <<-Pow2(MantBits - 1), 8>>
    ELSE FRound(Sgn(n), Abs(n), 0)

\* a + b: the smaller operand is aligned with three extra bits, the last
\* one sticky, then the sum is rounded once
FAdd(a, b) ==
    IF FIsZero(a) THEN b
    ELSE IF FIsZero(b) THEN a
    ELSE LET hi  == IF a[2] >= b[2] THEN a ELSE b
             lo  == IF a[2] >= b[2] THEN b ELSE a
             d   == hi[2] - lo[2]
             lom == Abs(lo[1]) * 8
             sh  == IF d >= 28 THEN 0 ELSE lom \div Pow2(d)
             st  == IF d >= 28 THEN TRUE ELSE (lom % Pow2(d)) # 0
             jam == IF st /\ sh % 2 = 0 THEN sh + 1 ELSE sh
             S   == hi[1] * 8 + Sgn(lo[1]) * jam
         IN  FRound(Sgn(S), Abs(S), hi[2] - 3)

FSub(a, b) == FAdd(a, FNeg(b))

\* a * b: the 48-bit product is formed from 12-bit halves
FMul(a, b) ==
    IF FIsZero(a) \/ FIsZero(b) THEN FZero
    ELSE LET ma  == Abs(a[1])
             mb  == Abs(b[1])
             a1  == ma \div 4096
             a0  == ma % 4096
             b1  == mb \div 4096
             b0  == mb % 4096
             hh  == a1 * b1
             mid == a1 * b0 + a0 * b1
             ll  == a0 * b0
             los == ll + (mid % 4096) * 4096
             lo  == los % 16777216
             hi  == hh + (mid \div 4096) + (los \div 16777216)
             M   == hi * 8 + (lo \div 2097152)
             st  == (lo % 2097152) # 0
             Mj  == M * 2 + (IF st THEN 1 ELSE 0)
         IN  FRound(Sgn(a[1]) * Sgn(b[1]), Mj, a[2] + b[2] + 20)

\* a / b (b # 0): 29 quotient bits by long division, remainder sticky
FDiv(a, b) ==
    IF FIsZero(a) THEN FZero
    ELSE LET ma == Abs(a[1])
             mb == Abs(b[1])
             q0 == ma \div mb
             r0 == ma % mb
             q1 == (r0 * 128) \div mb
             r1 == (r0 * 128) % mb
             q2 == (r1 * 128) \div mb
             r2 == (r1 * 128) % mb
             q3 == (r2 * 128) \div mb
             r3 == (r2 * 128) % mb
             q4 == (r3 * 128) \div mb
             r4 == (r3 * 128) % mb
             Q  == (((q0 * 128 + q1) * 128 + q2) * 128 + q3) * 128 + q4
             Qj == Q * 2 + (IF r4 # 0 THEN 1 ELSE 0)
         IN  FRound(Sgn(a[1]) * Sgn(b[1]), Qj, a[2] - b[2] - 29)

\* a < b
FLt(a, b) ==
    IF a[1] <= 0 /\ b[1] >= 0 THEN a # b
    ELSE IF a[1] >= 0 /\ b[1] <= 0 THEN FALSE
    ELSE IF a[1] > 0 THEN a[2] < b[2] \/ (a[2] = b[2] /\ a[1] < b[1])
    ELSE a[2] > b[2] \/ (a[2] = b[2] /\ a[1] < b[1])
FGt(a, b) == FLt(b, a)
FGe(a, b) == ~FLt(a, b)
FLe(a, b) == ~FLt(b, a)

\* floor() and ceil() followed by static_cast<int>
FFloor(a) ==
    IF a[2] >= 0 THEN a[1] * Pow2(a[2])
    ELSE IF -a[2] >= 30 THEN (IF a[1] < 0 THEN -1 ELSE 0)
    ELSE IF a[1] >= 0 THEN a[1] \div Pow2(-a[2])
    ELSE -((-a[1] + Pow2(-a[2]) - 1) \div Pow2(-a[2]))

FCeil(a) ==
    IF a[2] >= 0 THEN a[1] * Pow2(a[2])
    ELSE IF -a[2] >= 30 THEN (IF a[1] > 0 THEN 1 ELSE 0)
    ELSE IF a[1] >= 0 THEN (a[1] + Pow2(-a[2]) - 1) \div Pow2(-a[2])
    ELSE -((-a[1]) \div Pow2(-a[2]))

\* float literals of the source
F_0 == FZero
F_1 == IntToF(1)
F_0_5 == FDiv(IntToF(1), IntToF(2))
F_1_5 == FDiv(IntToF(3), IntToF(2))
F_2 == IntToF(2)
F_0_75 == FDiv(IntToF(3), IntToF(4))
F_2_3rds == FDiv(IntToF(2), IntToF(3))
F_1_6th == FDiv(IntToF(1), IntToF(6))
\* -1e+20f
F_m1e20 == <<-11368684, 43>>

(***************************************************************************)
(* Pointers: a null array or table is the empty function.                  *)
(***************************************************************************)
NULL == <<>>

(***************************************************************************)
(* Signed overflow ("-x" for x = INT_MIN, "x - y" out of range) is         *)
(* undefined behaviour: a build either wraps the result or traps.  The     *)
(* operators below compute the wrapped result; the *_overflows predicates  *)
(* tell when the overflow is evaluated, and the actions choose the         *)
(* outcome.                                                                *)
(***************************************************************************)
NegOutcomes == {"wrap", "trap"}

\* C remainder x % y for y > 0 (truncating toward zero)
CRem(x, y) ==
    LET m == x % y
    IN  IF x < 0 /\ m # 0 THEN m - y ELSE m

\* -x on int, two's complement
neg_int(x) == IF x = INT_MIN THEN INT_MIN ELSE -x

\* x - y on int overflows
sub_overflows(x, y) ==
    \/ (y < 0 /\ x > INT_MAX + y)
    \/ (y > 0 /\ x < INT_MIN + y)

\* x - y on int, two's complement
sub_int(x, y) ==
    IF y < 0 /\ x > INT_MAX + y THEN ((x + INT_MIN) - y) + INT_MIN
    ELSE IF y > 0 /\ x < INT_MIN + y THEN ((x - INT_MIN) - y) - INT_MIN
    ELSE x - y

\* (x mod y) with special handling for negative x values.
posmod(x, y) ==
    IF x >= 0 THEN CRem(x, y)
    ELSE LET m == CRem(neg_int(x), y)
         IN  IF m # 0 THEN y - m ELSE m

BOUNDARY_WRAP == "wrap"
BOUNDARY_REFLECT == "reflect"
BOUNDARY_CLAMP == "clamp"
Boundary_Op == {BOUNDARY_WRAP, BOUNDARY_REFLECT, BOUNDARY_CLAMP}

\* Ensure that the contributing source sample is within bounds.
\* If not, reflect, clamp, or wrap.
reflect(j, src_w, boundary_op) ==
    IF j < 0
    THEN IF boundary_op = BOUNDARY_REFLECT
         THEN LET n == neg_int(j)
              IN  IF n >= src_w THEN src_w - 1 ELSE n
         ELSE IF boundary_op = BOUNDARY_WRAP
         THEN posmod(j, src_w)
         ELSE 0
    ELSE IF j >= src_w
    THEN IF boundary_op = BOUNDARY_REFLECT
         THEN LET n == (src_w - j) + (src_w - 1)
              IN  IF n < 0 THEN 0 ELSE n
         ELSE IF boundary_op = BOUNDARY_WRAP
         THEN posmod(j, src_w)
         ELSE src_w - 1
    ELSE j

\* reflect(j, ...) negates j on the reflect and wrap paths for j < 0
reflect_overflows(j, boundary_op) ==
    j = INT_MIN /\ boundary_op \in {BOUNDARY_REFLECT, BOUNDARY_WRAP}

(***************************************************************************)
(* Filter kernels.  The registry g_filters has 16 entries; the four        *)
(* polynomial kernels are modelled, the windowed-sinc, Gaussian, Kaiser    *)
(* and Mitchell families are not.                                          *)
(***************************************************************************)
F_abs(t) == IF FLt(t, F_0) THEN FNeg(t) ELSE t

\* box_filter that is 1.0 on the closed interval [-0.5, 0.5]
box_filter_closed(t) ==
    IF FGe(t, FNeg(F_0_5)) /\ FLe(t, F_0_5) THEN F_1 ELSE F_0

\* pulse/Fourier window
box_filter(t) ==
    IF FGe(t, FNeg(F_0_5)) /\ FLt(t, F_0_5) THEN F_1 ELSE F_0

\* box (*) box, bilinear/triangle
tent_filter(t) ==
    LET a == F_abs(t)
    IN  IF FLt(a, F_1) THEN FSub(F_1, a) ELSE F_0

\* box (*) box (*) box
bell_filter(t) ==
    LET a == F_abs(t)
    IN  IF FLt(a, F_0_5) THEN FSub(F_0_75, FMul(a, a))
        ELSE IF FLt(a, F_1_5)
        THEN LET b == FSub(a, F_1_5) IN FMul(F_0_5, FMul(b, b))
        ELSE F_0

\* box (*) box (*) box (*) box
B_spline_filter(t) ==
    LET a == F_abs(t)
    IN  IF FLt(a, F_1)
        THEN LET tt == FMul(a, a)
             IN  FAdd(FSub(FMul(FMul(F_0_5, tt), a), tt), F_2_3rds)
        ELSE IF FLt(a, F_2)
        THEN LET b == FSub(F_2, a) IN FMul(F_1_6th, FMul(FMul(b, b), b))
        ELSE F_0

BOX_FILTER_SUPPORT == F_0_5
TENT_FILTER_SUPPORT == F_1
BELL_SUPPORT == F_1_5
B_SPLINE_SUPPORT == F_2

\* filters[] is a list of all the available filter functions.
g_filters ==
    << [name |-> "box",      support |-> BOX_FILTER_SUPPORT],
       [name |-> "tent",     support |-> TENT_FILTER_SUPPORT],
       [name |-> "bell",     support |-> BELL_SUPPORT],
       [name |-> "b-spline", support |-> B_SPLINE_SUPPORT] >>

NUM_FILTERS == Len(g_filters)

\* ( *Pfilter )( t ): the call through the registered function pointer
Pfilter(name, t) ==
    CASE name = "box"      -> box_filter(t)
      [] name = "tent"     -> tent_filter(t)
      [] name = "bell"     -> bell_filter(t)
      [] name = "b-spline" -> B_spline_filter(t)

(***************************************************************************)
(* make_clist(): for all destination samples, the list of all source       *)
(* samples with non-zero weighted contributions.                           *)
(***************************************************************************)
NUDGE == F_0_5

\* first loop: center, left and right of destination sample i
Contrib_Bounds(i, xscale, half_width, src_ofs) ==
    Bind(FAdd(FSub(FDiv(FAdd(IntToF(i), NUDGE), xscale), NUDGE), src_ofs),
         LAMBDA center :
            [center |-> center,
             left   |-> FFloor(FSub(center, half_width)),
             right  |-> FCeil(FAdd(center, half_width))])

\* the kernel value of candidate j (before normalisation)
filter_at(c, center, j) ==
    Pfilter(c.Pfilter,
            FMul(FMul(FSub(center, IntToF(j)), c.oo_filter_scale),
                 IF c.downsampling THEN c.xscale ELSE F_1))

RECURSIVE sum_weights(_, _, _, _, _)
sum_weights(c, center, j, right, total_weight) ==
    IF j > right THEN total_weight
    ELSE sum_weights(c, center, j + 1, right,
                     FAdd(total_weight, filter_at(c, center, j)))

\* second loop: p is the list built so far (p[k + 1] is Pcontrib[i].p[k])
RECURSIVE contributors(_, _, _, _, _, _)
contributors(c, center, norm, j, right, st) ==
    IF j > right THEN st
    ELSE Bind(FMul(filter_at(c, center, j), norm), LAMBDA weight :
            IF FIsZero(weight)
            THEN contributors(c, center, norm, j + 1, right, st)
            ELSE LET n  == reflect(j, c.src_w, c.boundary_op)
                     k  == Len(st.p)
                     gt == FGt(weight, st.max_w)
                 IN  contributors(c, center, norm, j + 1, right,
                       [p            |-> Append(st.p, [pixel  |-> n % 65536,
                                                       weight |-> weight]),
                        total_weight |-> FAdd(st.total_weight, weight),
                        max_k        |-> IF gt THEN k ELSE st.max_k,
                        max_w        |-> IF gt THEN weight ELSE st.max_w,
                        ovf          |-> st.ovf \/ reflect_overflows(j, c.boundary_op)]))

\* "p[ max_k ].weight = 1.0f - total_weight": the residual overwrites
add_residual_assign(p, max_k, total_weight) ==
    IF total_weight # F_1
    THEN [p EXCEPT ![max_k + 1].weight = FSub(F_1, total_weight)]
    ELSE p

\* if( total_weight != 1.0f ) p[ max_k ].weight += 1.0f - total_weight
add_residual(p, max_k, total_weight) ==
    IF total_weight # F_1
    THEN [p EXCEPT ![max_k + 1].weight = FAdd(@, FSub(F_1, total_weight))]
    ELSE p

\* the body of the second loop for destination sample i: ok is FALSE when
\* the build returns NULL at i, ovf is TRUE when reflect() negated INT_MIN.
\* A zero total_weight makes norm infinite and every weight a NaN (all
\* modelled kernels are non-negative): no weight compares greater than
\* max_w, max_k stays -1 and the build fails.
Contrib_List(c, i) ==
    Bind(Contrib_Bounds(i, c.xscale, c.half_width, c.src_ofs), LAMBDA b :
    Bind(sum_weights(c, b.center, b.left, b.right, F_0), LAMBDA total :
        IF FIsZero(total)
        THEN [ok |-> FALSE, p |-> <<>>,
              ovf |-> \E j \in b.left .. b.right : reflect_overflows(j, c.boundary_op)]
        ELSE Bind(contributors(c, b.center, FDiv(F_1, total), b.left, b.right,
                      [p |-> <<>>, total_weight |-> F_0, max_k |-> -1,
                       max_w |-> F_m1e20, ovf |-> FALSE]),
                  LAMBDA st :
                     IF st.max_k = -1 \/ Len(st.p) = 0
                     THEN [ok |-> FALSE, p |-> <<>>, ovf |-> st.ovf]
                     ELSE [ok |-> TRUE, ovf |-> st.ovf,
                           p |-> add_residual(st.p, st.max_k, st.total_weight)])))

make_clist_ctx(src_w, dst_w, boundary_op, filter, filter_support, filter_scale, src_ofs) ==
    Bind(FDiv(IntToF(dst_w), IntToF(src_w)), LAMBDA xscale :
        LET downsampling == FLt(xscale, F_1)
        IN  [src_w |-> src_w, dst_w |-> dst_w, boundary_op |-> boundary_op,
             Pfilter |-> filter, src_ofs |-> src_ofs,
             oo_filter_scale |-> FDiv(F_1, filter_scale),
             xscale |-> xscale, downsampling |-> downsampling,
             half_width |-> FMul(IF downsampling THEN FDiv(filter_support, xscale)
                                                 ELSE filter_support,
                                 filter_scale)])

\* the lists of all destination samples: for each, ok, the list p and ovf
Contrib_Lists(src_w, dst_w, boundary_op, filter, filter_support, filter_scale, src_ofs) ==
    Bind(make_clist_ctx(src_w, dst_w, boundary_op, filter, filter_support,
                        filter_scale, src_ofs),
         LAMBDA c : [i \in 0 .. dst_w - 1 |-> Contrib_List(c, i)])

\* make_clist that returns the table although a list of it is empty
make_clist_partial(src_w, dst_w, boundary_op, filter, filter_support, filter_scale, src_ofs) ==
    Bind(Contrib_Lists(src_w, dst_w, boundary_op, filter, filter_support,
                       filter_scale, src_ofs),
         LAMBDA L : [i \in 0 .. dst_w - 1 |-> L[i].p])

\* the table (a function on 0 .. dst_w - 1 of contributor lists), or NULL.
\* The allocations inside make_clist are taken to succeed; a failing one
\* is the constructor's alloc_fail input.
make_clist(src_w, dst_w, boundary_op, filter, filter_support, filter_scale, src_ofs) ==
    Bind(Contrib_Lists(src_w, dst_w, boundary_op, filter, filter_support,
                       filter_scale, src_ofs),
         LAMBDA L : IF \E i \in 0 .. dst_w - 1 : ~L[i].ok THEN NULL
                    ELSE [i \in 0 .. dst_w - 1 |-> L[i].p])

\* TRUE when the build evaluates -INT_MIN before it returns
make_clist_overflows(src_w, dst_w, boundary_op, filter, filter_support, filter_scale, src_ofs) ==
    Bind(Contrib_Lists(src_w, dst_w, boundary_op, filter, filter_support,
                       filter_scale, src_ofs),
         LAMBDA L : \E i \in 0 .. dst_w - 1 :
                       L[i].ovf /\ \A i2 \in 0 .. i - 1 : L[i2].ok)

(***************************************************************************)
(* unsigned int (32 bits) as <<high 16 bits, low 16 bits>>                 *)
(***************************************************************************)
U32(hi, lo) == <<hi, lo>>
U32_of(n) == <<n \div 65536, n % 65536>>

\* a + b modulo 2^32
U32_add(a, b) ==
    LET lo == a[2] + b[2]
        hi == a[1] + b[1] + (lo \div 65536)
    IN  <<hi % 65536, lo % 65536>>

U32_le(a, b) == a[1] < b[1] \/ (a[1] = b[1] /\ a[2] <= b[2])
U32_gt0(a) == a # <<0, 0>>

\* conversion of unsigned int to int (two's complement)
U32_to_int(a) ==
    IF a[1] >= 32768 THEN (a[1] - 65536) * 65536 + a[2]
    ELSE a[1] * 65536 + a[2]

(***************************************************************************)
(* The Resampler object                                                    *)
(***************************************************************************)
STATUS_OKAY == "STATUS_OKAY"
STATUS_OUT_OF_MEMORY == "STATUS_OUT_OF_MEMORY"
STATUS_BAD_FILTER_NAME == "STATUS_BAD_FILTER_NAME"
STATUS_SCAN_BUFFER_FULL == "STATUS_SCAN_BUFFER_FULL"

\* the number of scan-buffer slots (the capacity is scaled down)
MAX_SCAN_BUF_SIZE == 2

Slots == 0 .. MAX_SCAN_BUF_SIZE - 1

\* the allocation of the constructor that fails ("none": all succeed)
AllocSites ==
    {"none", "dst_buf", "clist_x", "clist_y", "src_y_count", "src_y_flag",
     "scan_buf", "tmp_buf"}

\* total number of contributors of a table with k lists
RECURSIVE count_ops(_, _)
count_ops(Pclist, k) ==
    IF k = 0 THEN 0 ELSE count_ops(Pclist, k - 1) + Len(Pclist[k - 1])

\* index of the filter in g_filters, NUM_FILTERS + 1 if there is none
find_filter(Pfilter_name) ==
    IF \E i \in 1 .. NUM_FILTERS : g_filters[i].name = Pfilter_name
    THEN CHOOSE i \in 1 .. NUM_FILTERS :
            /\ g_filters[i].name = Pfilter_name
            /\ \A i2 \in 1 .. i - 1 : g_filters[i2].name # Pfilter_name
    ELSE NUM_FILTERS + 1

\* count_list that counts a source line once for a list, however often
\* the list names it
count_list_once(count, p, j) ==
    [r \in DOMAIN count |->
        IF \E k \in j .. Len(p) : p[k].pixel = r THEN count[r] + 1 ELSE count[r]]

\* Count how many times each source line contributes to a destination line.
RECURSIVE count_list(_, _, _)
count_list(count, p, j) ==
    IF j > Len(p) THEN count
    ELSE count_list([count EXCEPT ![p[j].pixel] = @ + 1], p, j + 1)

RECURSIVE count_lines(_, _, _, _)
count_lines(count, Pclist_y, i, dst_h) ==
    IF i >= dst_h THEN count
    ELSE count_lines(count_list(count, Pclist_y[i], 1), Pclist_y, i + 1, dst_h)

\* the members as the first statements of the constructor set them;
\* m_cur_src_y and m_cur_dst_y are not initialised there (cur_init)
Resampler_begin(a) ==
    LET valid == /\ U32_gt0(a.dst_subrect_w) /\ U32_gt0(a.dst_subrect_h)
                 /\ U32_le(U32_add(a.dst_subrect_x, a.dst_subrect_w), U32_of(a.dst_w))
                 /\ U32_le(U32_add(a.dst_subrect_y, a.dst_subrect_h), U32_of(a.dst_h))
    IN  [m_lo |-> a.sample_low, m_hi |-> a.sample_high,
         m_delay_x_resample |-> FALSE, m_intermediate_x |-> 0,
         m_Pdst_buf |-> FALSE, m_Ptmp_buf |-> FALSE,
         m_clist_x_forced |-> FALSE, m_Pclist_x |-> NULL,
         m_clist_y_forced |-> FALSE, m_Pclist_y |-> NULL,
         m_Psrc_y_count |-> NULL, m_Psrc_y_flag |-> NULL,
         m_Pscan_buf |-> NULL, m_status |-> STATUS_OKAY,
         m_resample_src_w |-> a.src_w, m_resample_src_h |-> a.src_h,
         m_resample_dst_w |-> a.dst_w, m_resample_dst_h |-> a.dst_h,
         m_dst_subrect_beg_x |-> IF valid THEN U32_to_int(a.dst_subrect_x) ELSE 0,
         m_dst_subrect_end_x |->
            IF valid THEN U32_to_int(U32_add(a.dst_subrect_x, a.dst_subrect_w))
            ELSE a.dst_w,
         m_dst_subrect_beg_y |-> IF valid THEN U32_to_int(a.dst_subrect_y) ELSE 0,
         m_dst_subrect_end_y |->
            IF valid THEN U32_to_int(U32_add(a.dst_subrect_y, a.dst_subrect_h))
            ELSE a.dst_h,
         m_boundary_op |-> a.boundary_op,
         m_cur_src_y |-> 0, m_cur_dst_y |-> 0, cur_init |-> FALSE]

\* the number of multiplies of resampling X first, then Y
xy_ops(t) ==
    count_ops(t.m_Pclist_x, t.m_resample_dst_w) * t.m_resample_src_h
    + (4 * count_ops(t.m_Pclist_y, t.m_resample_dst_h) * t.m_resample_dst_w) \div 3

\* the number of multiplies of resampling Y first, then X
yx_ops(t) ==
    (4 * count_ops(t.m_Pclist_y, t.m_resample_dst_h) * t.m_resample_src_w) \div 3
    + count_ops(t.m_Pclist_x, t.m_resample_dst_w) * t.m_resample_dst_h

\* from the allocation of the reference counts to the end
Resampler_finish(t, alloc_fail) ==
    IF alloc_fail = "src_y_count" THEN [t EXCEPT !.m_status = STATUS_OUT_OF_MEMORY]
    ELSE LET zero == [r \in 0 .. t.m_resample_src_h - 1 |-> 0]
             t1 == [t EXCEPT !.m_Psrc_y_count = zero]
         IN
    IF alloc_fail = "src_y_flag" THEN [t1 EXCEPT !.m_status = STATUS_OUT_OF_MEMORY]
    ELSE LET t2 == [t1 EXCEPT
                      !.m_Psrc_y_flag = [r \in 0 .. t.m_resample_src_h - 1 |-> FALSE],
                      !.m_Psrc_y_count =
                          count_lines(zero, t.m_Pclist_y, 0, t.m_resample_dst_h)]
         IN
    IF alloc_fail = "scan_buf" THEN [t2 EXCEPT !.m_status = STATUS_OUT_OF_MEMORY]
    ELSE LET delay  == \/ xy_ops(t) > yx_ops(t)
                       \/ (/\ xy_ops(t) = yx_ops(t)
                           /\ t.m_resample_src_w < t.m_resample_dst_w)
             t3 == [t2 EXCEPT
                      !.m_Pscan_buf = [scan_buf_y |-> [i \in Slots |-> -1],
                                       scan_buf_l |-> [i \in Slots |-> FALSE]],
                      !.m_cur_src_y = 0,
                      !.m_cur_dst_y = t.m_dst_subrect_beg_y,
                      !.cur_init = TRUE,
                      !.m_delay_x_resample = delay,
                      !.m_intermediate_x =
                          IF delay THEN t.m_resample_src_w
                          ELSE sub_int(t.m_dst_subrect_end_x, t.m_dst_subrect_beg_x)]
         IN
    IF delay /\ alloc_fail = "tmp_buf" THEN [t3 EXCEPT !.m_status = STATUS_OUT_OF_MEMORY]
    ELSE [t3 EXCEPT !.m_Ptmp_buf = delay]

\* Resampler::Resampler.  a.Pclist_x and a.Pclist_y are the caller's
\* tables (NULL: build them); the filter name is never omitted.
Resampler(a, alloc_fail) ==
    LET t0 == Resampler_begin(a)
        fi == find_filter(a.Pfilter_name)
    IN
    IF alloc_fail = "dst_buf" THEN [t0 EXCEPT !.m_status = STATUS_OUT_OF_MEMORY]
    ELSE LET t1 == [t0 EXCEPT !.m_Pdst_buf = TRUE] IN
    IF fi = NUM_FILTERS + 1 THEN [t1 EXCEPT !.m_status = STATUS_BAD_FILTER_NAME]
    ELSE LET func    == g_filters[fi].name
             support == g_filters[fi].support
         IN
    Bind(IF a.Pclist_x # NULL THEN a.Pclist_x
         ELSE IF alloc_fail = "clist_x" THEN NULL
         ELSE make_clist(a.src_w, a.dst_w, a.boundary_op, func, support,
                         a.filter_x_scale, a.src_x_ofs),
         LAMBDA clx :
    IF clx = NULL THEN [t1 EXCEPT !.m_status = STATUS_OUT_OF_MEMORY]
    ELSE LET t2 == [t1 EXCEPT !.m_Pclist_x = clx,
                              !.m_clist_x_forced = (a.Pclist_x # NULL)]
         IN
    Bind(IF a.Pclist_y # NULL THEN a.Pclist_y
         ELSE IF alloc_fail = "clist_y" THEN NULL
         ELSE make_clist(a.src_h, a.dst_h, a.boundary_op, func, support,
                         a.filter_y_scale, a.src_y_ofs),
         LAMBDA cly :
    IF cly = NULL THEN [t2 EXCEPT !.m_status = STATUS_OUT_OF_MEMORY]
    ELSE Resampler_finish([t2 EXCEPT !.m_Pclist_y = cly,
                                     !.m_clist_y_forced = (a.Pclist_y # NULL)],
                          alloc_fail)))

(***************************************************************************)
(* put_line, get_line, resample_y.  Each operator returns the object       *)
(* after the call, the value returned and the fault that ended the call:   *)
(* "none", "assert" (an assert() failed; assertions are compiled in),      *)
(* "null" (a null pointer was dereferenced) or "oob" (an array was read    *)
(* outside its bounds).  The samples of a scanline are not modelled: a     *)
(* slot's scan_buf_l is TRUE when a line buffer is allocated to it.        *)
(***************************************************************************)
Outcome(t, ret, fault) == [this |-> t, ret |-> ret, fault |-> fault]

\* the first slot holding row y, MAX_SCAN_BUF_SIZE if there is none
find_slot(scan_buf_y, y) ==
    IF \E i \in Slots : scan_buf_y[i] = y
    THEN CHOOSE i \in Slots :
            scan_buf_y[i] = y /\ \A i2 \in 0 .. i - 1 : scan_buf_y[i2] # y
    ELSE MAX_SCAN_BUF_SIZE

\* put_line_store that, when no slot is free, overwrites slot 0
put_line_store_evict(t, malloc_ok) ==
    LET y  == t.m_cur_src_y
        i0 == find_slot(t.m_Pscan_buf.scan_buf_y, -1)
        i  == IF i0 = MAX_SCAN_BUF_SIZE THEN 0 ELSE i0
        t1 == [t EXCEPT !.m_Psrc_y_flag[y] = TRUE,
                        !.m_Pscan_buf.scan_buf_y[i] = y]
    IN
    IF ~t.m_Pscan_buf.scan_buf_l[i] /\ ~malloc_ok
    THEN Outcome([t1 EXCEPT !.m_status = STATUS_OUT_OF_MEMORY], FALSE, "none")
    ELSE Outcome([t1 EXCEPT !.m_Pscan_buf.scan_buf_l[i] = TRUE,
                            !.m_cur_src_y = y + 1], TRUE, "none")

\* put_line from "Find an empty slot" on, for the row y = m_cur_src_y;
\* malloc_ok: whether the allocation of a line buffer succeeds
put_line_store(t, malloc_ok) ==
    LET y == t.m_cur_src_y
        i == find_slot(t.m_Pscan_buf.scan_buf_y, -1)
    IN
    \* If the buffer is full, exit with an error.
    IF i = MAX_SCAN_BUF_SIZE
    THEN Outcome([t EXCEPT !.m_status = STATUS_SCAN_BUFFER_FULL], FALSE, "none")
    ELSE
    LET t1 == [t EXCEPT !.m_Psrc_y_flag[y] = TRUE,
                        !.m_Pscan_buf.scan_buf_y[i] = y] IN
    \* Does this slot have any memory allocated to it?
    IF ~t.m_Pscan_buf.scan_buf_l[i] /\ ~malloc_ok
    THEN Outcome([t1 EXCEPT !.m_status = STATUS_OUT_OF_MEMORY], FALSE, "none")
    ELSE Outcome([t1 EXCEPT !.m_Pscan_buf.scan_buf_l[i] = TRUE,
                            !.m_cur_src_y = y + 1], TRUE, "none")

\* put_line without the test m_cur_src_y >= m_resample_src_h
put_line_unchecked(t, malloc_ok) ==
    LET y == t.m_cur_src_y IN
    IF ~(y >= 0 /\ y < t.m_resample_src_h) THEN Outcome(t, FALSE, "assert")
    ELSE IF t.m_Psrc_y_count = NULL THEN Outcome(t, FALSE, "null")
    ELSE IF t.m_Psrc_y_count[y] = 0
    THEN Outcome([t EXCEPT !.m_cur_src_y = y + 1], TRUE, "none")
    ELSE IF t.m_Pscan_buf = NULL THEN Outcome(t, FALSE, "null")
    ELSE put_line_store(t, malloc_ok)

\* put_line that stores a row whatever its reference count
put_line_no_skip(t, malloc_ok) ==
    LET y == t.m_cur_src_y IN
    IF y >= t.m_resample_src_h THEN Outcome(t, FALSE, "none")
    ELSE IF ~(y >= 0 /\ y < t.m_resample_src_h) THEN Outcome(t, FALSE, "assert")
    ELSE IF t.m_Psrc_y_count = NULL THEN Outcome(t, FALSE, "null")
    ELSE IF t.m_Pscan_buf = NULL THEN Outcome(t, FALSE, "null")
    ELSE put_line_store(t, malloc_ok)

put_line(t, malloc_ok) ==
    LET y == t.m_cur_src_y IN
    IF y >= t.m_resample_src_h THEN Outcome(t, FALSE, "none")
    ELSE IF ~(y >= 0 /\ y < t.m_resample_src_h) THEN Outcome(t, FALSE, "assert")
    ELSE IF t.m_Psrc_y_count = NULL THEN Outcome(t, FALSE, "null")
    \* Does this source line contribute to any destination line?
    ELSE IF t.m_Psrc_y_count[y] = 0
    THEN Outcome([t EXCEPT !.m_cur_src_y = y + 1], TRUE, "none")
    ELSE IF t.m_Pscan_buf = NULL THEN Outcome(t, FALSE, "null")
    ELSE put_line_store(t, malloc_ok)

\* resample_y_loop that frees a row's slot at its first use
RECURSIVE resample_y_loop_free_early(_, _, _, _)
resample_y_loop_free_early(t, p, i, null_read) ==
    IF i >= Len(p) THEN Outcome(t, TRUE, "none")
    ELSE
    LET pixel == p[i + 1].pixel
        j     == find_slot(t.m_Pscan_buf.scan_buf_y, pixel)
    IN
    IF j = MAX_SCAN_BUF_SIZE THEN Outcome(t, FALSE, "assert")
    ELSE IF ~t.m_Pscan_buf.scan_buf_l[j] /\ ~null_read THEN Outcome(t, FALSE, "null")
    ELSE IF ~(pixel >= 0 /\ pixel < t.m_resample_src_h) THEN Outcome(t, FALSE, "assert")
    ELSE resample_y_loop_free_early(
             [t EXCEPT !.m_Psrc_y_count[pixel] = @ - 1,
                       !.m_Psrc_y_flag[pixel] = FALSE,
                       !.m_Pscan_buf.scan_buf_y[j] = -1],
             p, i + 1, null_read)

\* resample_y_loop that keeps a row in its slot when its count reaches 0
RECURSIVE resample_y_loop_keep_slot(_, _, _, _)
resample_y_loop_keep_slot(t, p, i, null_read) ==
    IF i >= Len(p) THEN Outcome(t, TRUE, "none")
    ELSE
    LET pixel == p[i + 1].pixel
        j     == find_slot(t.m_Pscan_buf.scan_buf_y, pixel)
    IN
    IF j = MAX_SCAN_BUF_SIZE THEN Outcome(t, FALSE, "assert")
    ELSE IF ~t.m_Pscan_buf.scan_buf_l[j] /\ ~null_read THEN Outcome(t, FALSE, "null")
    ELSE IF ~(pixel >= 0 /\ pixel < t.m_resample_src_h) THEN Outcome(t, FALSE, "assert")
    ELSE
    LET t1 == [t EXCEPT !.m_Psrc_y_count[pixel] = @ - 1] IN
    IF t1.m_Psrc_y_count[pixel] = 0
    THEN resample_y_loop_keep_slot([t1 EXCEPT !.m_Psrc_y_flag[pixel] = FALSE],
                                   p, i + 1, null_read)
    ELSE resample_y_loop_keep_slot(t1, p, i + 1, null_read)

\* the contributor loop of resample_y from contributor i (p[i + 1]) on;
\* null_read: whether reading through a null line pointer goes on
RECURSIVE resample_y_loop(_, _, _, _)
resample_y_loop(t, p, i, null_read) ==
    IF i >= Len(p) THEN Outcome(t, TRUE, "none")
    ELSE
    LET pixel == p[i + 1].pixel
        j     == find_slot(t.m_Pscan_buf.scan_buf_y, pixel)
    IN
    IF j = MAX_SCAN_BUF_SIZE THEN Outcome(t, FALSE, "assert")
    ELSE IF ~t.m_Pscan_buf.scan_buf_l[j] /\ ~null_read THEN Outcome(t, FALSE, "null")
    ELSE IF ~(pixel >= 0 /\ pixel < t.m_resample_src_h) THEN Outcome(t, FALSE, "assert")
    ELSE
    LET t1 == [t EXCEPT !.m_Psrc_y_count[pixel] = @ - 1] IN
    \* If this source line doesn't contribute to any more destination
    \* lines then mark the scanline buffer slot as free.
    IF t1.m_Psrc_y_count[pixel] = 0
    THEN resample_y_loop([t1 EXCEPT !.m_Psrc_y_flag[pixel] = FALSE,
                                    !.m_Pscan_buf.scan_buf_y[j] = -1],
                         p, i + 1, null_read)
    ELSE resample_y_loop(t1, p, i + 1, null_read)

\* resample_y that clears the status before it produces a row
resample_y_clear_status(t, null_read) ==
    IF t.m_delay_x_resample /\ ~t.m_Ptmp_buf THEN Outcome(t, FALSE, "assert")
    ELSE resample_y_loop([t EXCEPT !.m_status = STATUS_OKAY],
                         t.m_Pclist_y[t.m_cur_dst_y], 0, null_read)

resample_y(t, null_read) ==
    \* Ptmp = m_delay_x_resample ? m_Ptmp_buf : Pdst; assert( Ptmp )
    IF t.m_delay_x_resample /\ ~t.m_Ptmp_buf THEN Outcome(t, FALSE, "assert")
    ELSE resample_y_loop(t, t.m_Pclist_y[t.m_cur_dst_y], 0, null_read)

\* get_line that skips a destination row whose contributors are missing
get_line_skip(t, null_read) ==
    IF t.m_cur_dst_y = t.m_dst_subrect_end_y THEN Outcome(t, -1, "none")
    ELSE IF t.m_Pclist_y = NULL THEN Outcome(t, -1, "null")
    ELSE IF t.m_cur_dst_y \notin 0 .. t.m_resample_dst_h - 1 THEN Outcome(t, -1, "oob")
    ELSE
    LET p == t.m_Pclist_y[t.m_cur_dst_y] IN
    IF Len(p) > 0 /\ t.m_Psrc_y_flag = NULL THEN Outcome(t, -1, "null")
    ELSE IF \E i \in 1 .. Len(p) :
               /\ \A i2 \in 1 .. i - 1 : p[i2].pixel < t.m_resample_src_h
                                         /\ t.m_Psrc_y_flag[p[i2].pixel]
               /\ p[i].pixel >= t.m_resample_src_h
    THEN Outcome(t, -1, "assert")
    ELSE IF \E i \in 1 .. Len(p) : ~t.m_Psrc_y_flag[p[i].pixel]
    THEN Outcome([t EXCEPT !.m_cur_dst_y = t.m_cur_dst_y + 1], -1, "none")
    ELSE IF t.m_Pscan_buf = NULL THEN Outcome(t, -1, "null")
    ELSE
    Bind(resample_y(t, null_read), LAMBDA r :
        IF r.fault # "none" THEN Outcome(t, -1, r.fault)
        ELSE Outcome([r.this EXCEPT !.m_cur_dst_y = t.m_cur_dst_y + 1],
                     t.m_cur_dst_y, "none"))

\* the value returned is the destination row produced, -1 for NULL
get_line(t, null_read) ==
    \* If all the destination lines have been generated, then always return NULL.
    IF t.m_cur_dst_y = t.m_dst_subrect_end_y THEN Outcome(t, -1, "none")
    ELSE IF t.m_Pclist_y = NULL THEN Outcome(t, -1, "null")
    ELSE IF t.m_cur_dst_y \notin 0 .. t.m_resample_dst_h - 1 THEN Outcome(t, -1, "oob")
    ELSE
    LET p == t.m_Pclist_y[t.m_cur_dst_y] IN
    IF Len(p) > 0 /\ t.m_Psrc_y_flag = NULL THEN Outcome(t, -1, "null")
    ELSE IF \E i \in 1 .. Len(p) :
               /\ \A i2 \in 1 .. i - 1 : p[i2].pixel < t.m_resample_src_h
                                         /\ t.m_Psrc_y_flag[p[i2].pixel]
               /\ p[i].pixel >= t.m_resample_src_h
    THEN Outcome(t, -1, "assert")
    \* Check to see if all the required contributors are present.
    ELSE IF \E i \in 1 .. Len(p) : ~t.m_Psrc_y_flag[p[i].pixel]
    THEN Outcome(t, -1, "none")
    ELSE IF t.m_Pscan_buf = NULL THEN Outcome(t, -1, "null")
    ELSE
    Bind(resample_y(t, null_read), LAMBDA r :
        IF r.fault # "none" THEN Outcome(t, -1, r.fault)
        ELSE Outcome([r.this EXCEPT !.m_cur_dst_y = t.m_cur_dst_y + 1],
                     t.m_cur_dst_y, "none"))

\* ~Resampler that releases the Y table whoever built it
Resampler_dtor_forced_y(t) ==
    [this  |-> [t EXCEPT !.m_Pdst_buf = FALSE, !.m_Ptmp_buf = FALSE,
                         !.m_Pclist_x = NULL, !.m_Pclist_y = NULL,
                         !.m_Psrc_y_count = NULL, !.m_Psrc_y_flag = NULL,
                         !.m_Pscan_buf = NULL],
     freed |-> {"m_Pclist_x", "m_Pclist_y"}, freed_l |-> {}]

\* Resampler::~Resampler: the object after it and the blocks it passed to
\* free(), each named after the member that pointed to it (free( NULL )
\* releases nothing), and the slots whose lines it released
Resampler_dtor(t) ==
    LET free_x == t.m_Pclist_x # NULL /\ ~t.m_clist_x_forced
        free_y == t.m_Pclist_y # NULL /\ ~t.m_clist_y_forced
    IN  [this  |-> [t EXCEPT
                      !.m_Pdst_buf = FALSE, !.m_Ptmp_buf = FALSE,
                      !.m_Pclist_x = IF free_x THEN NULL ELSE @,
                      !.m_Pclist_y = IF free_y THEN NULL ELSE @,
                      !.m_Psrc_y_count = NULL, !.m_Psrc_y_flag = NULL,
                      !.m_Pscan_buf = NULL],
         freed |-> {b \in {"m_Pdst_buf"} : t.m_Pdst_buf}
                   \cup {b \in {"m_Ptmp_buf"} : t.m_Ptmp_buf}
                   \cup {b \in {"m_Pclist_x"} : free_x}
                   \cup {b \in {"m_Pclist_y"} : free_y}
                   \cup {b \in {"m_Psrc_y_count"} : t.m_Psrc_y_count # NULL}
                   \cup {b \in {"m_Psrc_y_flag"} : t.m_Psrc_y_flag # NULL}
                   \cup {b \in {"m_Pscan_buf"} : t.m_Pscan_buf # NULL},
         freed_l |-> IF t.m_Pscan_buf = NULL THEN {}
                     ELSE {i \in Slots : t.m_Pscan_buf.scan_buf_l[i]}]

(***************************************************************************)
(* The samples.  A line is a sequence of single-precision numbers, sample  *)
(* k of the line being line[k + 1]; Sample and Resample_Real are float.    *)
(***************************************************************************)
clamp_sample(f, lo, hi) ==
    IF FLt(f, lo) THEN lo ELSE IF FGt(f, hi) THEN hi ELSE f

clamp(Pdst, n, lo, hi) ==
    [k \in 1 .. Len(Pdst) |->
        IF k <= n THEN clamp_sample(Pdst[k], lo, hi) ELSE Pdst[k]]

\* the inner loop of resample_x from contributor p[j] on
RECURSIVE resample_x_total(_, _, _, _)
resample_x_total(p, Psrc, j, total) ==
    IF j > Len(p) THEN total
    ELSE resample_x_total(p, Psrc, j + 1,
                          FAdd(total, FMul(Psrc[p[j].pixel + 1], p[j].weight)))

\* the line resample_x writes to Pdst
resample_x(t, Psrc) ==
    [k \in 1 .. t.m_dst_subrect_end_x - t.m_dst_subrect_beg_x |->
        resample_x_total(t.m_Pclist_x[t.m_dst_subrect_beg_x + k - 1], Psrc, 1, F_0)]

scale_y_mov(Ptmp, Psrc, weight, dst_w) ==
    [k \in 1 .. Len(Ptmp) |-> IF k <= dst_w THEN FMul(Psrc[k], weight) ELSE Ptmp[k]]

scale_y_add(Ptmp, Psrc, weight, dst_w) ==
    [k \in 1 .. Len(Ptmp) |->
        IF k <= dst_w THEN FAdd(Ptmp[k], FMul(Psrc[k], weight)) ELSE Ptmp[k]]

\* the line put_line stores in the slot it claimed
put_line_samples(t, Psrc) ==
    IF t.m_delay_x_resample
    THEN [k \in 1 .. t.m_intermediate_x |-> Psrc[k]]
    ELSE resample_x(t, Psrc)

\* the contents of Ptmp after the contributor loop of resample_y, from
\* contributor i (p[i + 1]) on; scan_buf_l are the lines of the slots, t
\* the object before contributor i is processed
RECURSIVE resample_y_samples(_, _, _, _, _)
resample_y_samples(t, scan_buf_l, p, i, Ptmp) ==
    IF i >= Len(p) THEN Ptmp
    ELSE
    LET j    == find_slot(t.m_Pscan_buf.scan_buf_y, p[i + 1].pixel)
        Psrc == scan_buf_l[j]
    IN  resample_y_samples(
            resample_y_loop(t, <<p[i + 1]>>, 0, TRUE).this, scan_buf_l, p, i + 1,
            IF i = 0 THEN scale_y_mov(Ptmp, Psrc, p[i + 1].weight, t.m_intermediate_x)
            ELSE scale_y_add(Ptmp, Psrc, p[i + 1].weight, t.m_intermediate_x))

\* resample_y_clamp that clamps whatever the range
resample_y_clamp_always(t, Pdst) ==
    clamp(Pdst, t.m_dst_subrect_end_x - t.m_dst_subrect_beg_x, t.m_lo, t.m_hi)

\* the last statement of resample_y
resample_y_clamp(t, Pdst) ==
    IF FLt(t.m_lo, t.m_hi)
    THEN clamp(Pdst, t.m_dst_subrect_end_x - t.m_dst_subrect_beg_x, t.m_lo, t.m_hi)
    ELSE Pdst

\* the buffers after resample_y( m_Pdst_buf ), and Pdst as it is when
\* resample_y reaches "if( m_lo < m_hi )"
resample_y_buffers(t, scan_buf_l, Ptmp_buf, Pdst_buf) ==
    Bind(resample_y_samples(t, scan_buf_l, t.m_Pclist_y[t.m_cur_dst_y], 0,
                            IF t.m_delay_x_resample THEN Ptmp_buf ELSE Pdst_buf),
         LAMBDA tmp :
    Bind(IF t.m_delay_x_resample THEN resample_x(t, tmp) ELSE tmp,
         LAMBDA out :
            [Ptmp_buf  |-> IF t.m_delay_x_resample THEN tmp ELSE Ptmp_buf,
             unclamped |-> out,
             Pdst_buf  |-> resample_y_clamp(t, out)]))

(***************************************************************************)
(* State.  this is the Resampler object (NULL before construction), args   *)
(* the arguments of the constructor or of the function applied, ret the    *)
(* last call and what it returned, pre the object as it was before that    *)
(* call, hist what the caller has observed so far, proto the position of   *)
(* the streaming protocol's driver, aborted the fault that ended the       *)
(* process ("no": running), mem the samples held in the line buffers       *)
(* (NULL where a specification leaves the samples out).                    *)
(***************************************************************************)
VARIABLES this, pre, args, ret, hist, proto, aborted, mem

vars == <<this, pre, args, ret, hist, proto, aborted, mem>>

NoHist == [accepted |-> {}, out |-> <<>>, full_seen |-> FALSE, malloc_failed |-> FALSE]
NoProto == [nput |-> 0, drained |-> FALSE, put_ok |-> TRUE]
NoRet == [op |-> "none"]

\* bounds of the inputs
MaxSrcH == 4
MaxDstH == 3

\* values read from the uninitialised m_cur_src_y and m_cur_dst_y
Indeterminate == {-1, 0, INT_MAX}

CtorArgs(src_w, src_h, dst_w, dst_h, boundary_op, Pfilter_name, sx, sy, sw, sh) ==
    [src_w |-> src_w, src_h |-> src_h, dst_w |-> dst_w, dst_h |-> dst_h,
     boundary_op |-> boundary_op, sample_low |-> F_0, sample_high |-> F_0,
     Pfilter_name |-> Pfilter_name, Pclist_x |-> NULL, Pclist_y |-> NULL,
     filter_x_scale |-> F_1, filter_y_scale |-> F_1,
     src_x_ofs |-> F_0, src_y_ofs |-> F_0,
     dst_subrect_x |-> sx, dst_subrect_y |-> sy,
     dst_subrect_w |-> sw, dst_subrect_h |-> sh]

\* the destination sub-rectangles <<y, w, h>> of a one-column, dst_h-row
\* image: none, or rows y .. y + h - 1
SubRects(dst_h) ==
    {<<0, 0, 0>>} \cup {<<y, 1, h>> : y \in 0 .. dst_h - 1, h \in 1 .. dst_h}

\* those that fit in the image
FittingSubRects(dst_h) == {r \in SubRects(dst_h) : r[1] + r[3] <= dst_h}

EngineFilters == {"box", "tent"}

EngineArgs ==
    UNION { { CtorArgs(1, sh, 1, dh, op, nm,
                       U32_of(0), U32_of(r[1]), U32_of(r[2]), U32_of(r[3])) :
                sh \in 1 .. MaxSrcH, op \in Boundary_Op,
                nm \in EngineFilters, r \in FittingSubRects(dh) } :
            dh \in 1 .. MaxDstH }

\* the jobs whose construction fails: an unknown filter name, or an
\* allocation that returns NULL
FailingArgs ==
    { CtorArgs(1, sh, 1, dh, BOUNDARY_CLAMP, nm, U32_of(0), U32_of(0), U32_of(0), U32_of(0)) :
        sh \in 1 .. MaxSrcH, dh \in 1 .. MaxDstH, nm \in EngineFilters \cup {"bogus"} }

\* jobs with a Y filter scale of 0.5: the stretched box kernel of a
\* downscale then passes over some source rows, which no list names
SparseArgs ==
    { a \in { [CtorArgs(1, sh, 1, dh, BOUNDARY_CLAMP, "box",
                        U32_of(0), U32_of(0), U32_of(0), U32_of(0))
                  EXCEPT !.filter_y_scale = F_0_5] :
                sh \in 2 .. MaxSrcH, dh \in 1 .. 2 } :
        Resampler(a, "none").m_status = STATUS_OKAY }

EngineInputs ==
    {<<a, "none">> : a \in EngineArgs \cup SparseArgs}
        \cup (FailingArgs \X AllocSites)

(***************************************************************************)
(* The streaming engine: any sequence of put_line and get_line calls on    *)
(* an object the constructor returned.                                     *)
(***************************************************************************)
Init ==
    /\ \E in \in EngineInputs :
          /\ args = [fn |-> "Resampler", a |-> in[1], alloc_fail |-> in[2]]
          /\ this = Resampler(in[1], in[2])
    /\ pre = NULL
    /\ ret = [op |-> "Resampler"]
    /\ hist = NoHist
    /\ proto = NoProto
    /\ aborted = "no"
    /\ mem = NULL

\* the values a call may read from m_cur_src_y and m_cur_dst_y
CursorReads == IF this.cur_init THEN {0} ELSE Indeterminate

\* the object a call reads: an uninitialised cursor holds any value
Read(g1, g2) ==
    IF this.cur_init THEN this
    ELSE [this EXCEPT !.m_cur_src_y = g1, !.m_cur_dst_y = g2]

\* TRUE when put_line(t, _) takes the scan-buffer-full exit
put_line_full(t) ==
    /\ t.m_cur_src_y >= 0 /\ t.m_cur_src_y < t.m_resample_src_h
    /\ t.m_Psrc_y_count # NULL /\ t.m_Pscan_buf # NULL
    /\ t.m_Psrc_y_count[t.m_cur_src_y] # 0
    /\ \A i \in Slots : t.m_Pscan_buf.scan_buf_y[i] # -1

PutLineCall(t, malloc_ok) ==
    Bind(put_line(t, malloc_ok), LAMBDA r :
    /\ pre' = t
    /\ ret' = [op |-> "put_line", ok |-> r.ret, row |-> t.m_cur_src_y,
               fault |-> r.fault]
    /\ aborted' = IF r.fault # "none" THEN r.fault ELSE aborted
    /\ this' = IF r.fault # "none" THEN this ELSE r.this
    /\ hist' = [hist EXCEPT
                  !.accepted = IF r.ret THEN @ \cup {t.m_cur_src_y} ELSE @,
                  !.full_seen = @ \/ (r.fault = "none" /\ put_line_full(t)),
                  !.malloc_failed = @ \/ (/\ r.fault = "none" /\ ~r.ret /\ r.this # t
                                          /\ r.this.m_status = STATUS_OUT_OF_MEMORY)]
    /\ UNCHANGED args)

GetLineCall(t, null_read) ==
    Bind(get_line(t, null_read), LAMBDA r :
    /\ pre' = t
    /\ ret' = [op |-> "get_line", row |-> r.ret, fault |-> r.fault]
    /\ aborted' = IF r.fault # "none" THEN r.fault ELSE aborted
    /\ this' = IF r.fault # "none" THEN this ELSE r.this
    /\ hist' = [hist EXCEPT !.out = IF r.ret # -1 THEN Append(@, r.ret) ELSE @]
    /\ UNCHANGED args)

PutLine ==
    /\ aborted = "no"
    /\ \E malloc_ok \in BOOLEAN, g \in CursorReads :
          PutLineCall(Read(g, g), malloc_ok)
    /\ UNCHANGED <<proto, mem>>

GetLine ==
    /\ aborted = "no"
    /\ \E null_read \in BOOLEAN, g \in CursorReads :
          GetLineCall(Read(g, g), null_read)
    /\ UNCHANGED <<proto, mem>>

Next == PutLine \/ GetLine

Spec == Init /\ [][Next]_vars

(***************************************************************************)
(* The streaming protocol of a caller: on an object constructed with       *)
(* status okay, put_line once per source row, and after each put_line      *)
(* get_line until it returns NULL; get_line again after the last row.      *)
(***************************************************************************)
InitProto ==
    /\ Init
    /\ this.m_status = STATUS_OKAY

ProtoPut ==
    /\ aborted = "no"
    /\ proto.nput < this.m_resample_src_h
    /\ proto.nput = 0 \/ proto.drained
    /\ \E malloc_ok \in BOOLEAN : PutLineCall(this, malloc_ok)
    /\ proto' = [nput    |-> proto.nput + 1,
                 drained |-> FALSE,
                 put_ok  |-> proto.put_ok /\ ret'.ok]
    /\ UNCHANGED mem

ProtoGet ==
    /\ aborted = "no"
    /\ proto.nput > 0
    /\ ~proto.drained \/ proto.nput = this.m_resample_src_h
    /\ \E null_read \in BOOLEAN : GetLineCall(this, null_read)
    /\ proto' = [proto EXCEPT !.drained = (ret'.row = -1 /\ ret'.fault = "none")]
    /\ UNCHANGED mem

NextProto == ProtoPut \/ ProtoGet

SpecProto == InitProto /\ [][NextProto]_vars

\* the caller has fed all source rows and drained get_line
ProtoDone ==
    /\ proto.nput = this.m_resample_src_h
    /\ proto.drained

\* the rows of the destination sub-rectangle, in increasing order
SubrectRows(t) ==
    [k \in 1 .. t.m_dst_subrect_end_y - t.m_dst_subrect_beg_y |->
        t.m_dst_subrect_beg_y + k - 1]

ConstructedOk ==
    /\ args.alloc_fail = "none"
    /\ find_filter(args.a.Pfilter_name) <= NUM_FILTERS

\* the source rows named in the Y contributor list of destination row y
Contributors(t, y) ==
    {t.m_Pclist_y[y][k].pixel : k \in 1 .. Len(t.m_Pclist_y[y])}

\* the last call was get_line while a contributor row of the pending
\* destination row had not been accepted by put_line
PrematureGet ==
    /\ ConstructedOk
    /\ ret.op = "get_line"
    /\ pre.m_cur_dst_y < pre.m_dst_subrect_end_y
    /\ ~(Contributors(pre, pre.m_cur_dst_y) \subseteq hist.accepted)

\* C2: get_line never fabricates a premature row: while a source row named
\* in the pending destination row's Y contributor list has not been
\* accepted by put_line, get_line returns none.
C2_NoPrematureRow ==
    PrematureGet => (ret.fault = "none" /\ ret.row = -1)

\* the last call was put_line for a row with a dependent destination row
\* while every scan-buffer slot was occupied
PutWhileFull == ret.op = "put_line" /\ put_line_full(pre)

\* C3: put_line called for a source row with at least one dependent
\* destination row while every scan-buffer slot is occupied returns failure,
\* sets the status to scan-buffer-full and leaves next_source_row, every
\* slot's row tag, every presence flag and every reference count unchanged.
C3_FullIsNonCorrupting ==
    PutWhileFull =>
        /\ ret.fault = "none" /\ ~ret.ok
        /\ this = [pre EXCEPT !.m_status = STATUS_SCAN_BUFFER_FULL]
        /\ pre.m_cur_src_y \notin hist.accepted

C3_Witness ==
    /\ PutWhileFull
    /\ pre.m_status = STATUS_OKAY
    /\ this.m_status = STATUS_SCAN_BUFFER_FULL

\* the last call was put_line after all src_h rows had been accepted
PutWhenExhausted ==
    /\ ret.op = "put_line"
    /\ pre.cur_init
    /\ pre.m_cur_src_y >= pre.m_resample_src_h

\* C4: once next_source_row >= src_h, put_line returns failure and changes
\* no engine state.
C4_ExhaustedRejects ==
    PutWhenExhausted => (ret.fault = "none" /\ ~ret.ok /\ this = pre)

C4_Witness ==
    /\ PutWhenExhausted
    /\ pre.m_status = STATUS_OKAY
    /\ Cardinality(hist.accepted) = pre.m_resample_src_h
    /\ pre.m_resample_src_h >= 2

\* the last call was get_line and it returned none
GetReturnedNone == ret.op = "get_line" /\ ret.fault = "none" /\ ret.row = -1

\* C5: a get_line call that returns none, at the end of the sub-rectangle
\* or for a missing contributor row, leaves next_dest_row, next_source_row,
\* the reference counts, the presence flags, the cache slots and the status
\* unchanged.
C5_NoneConsumesNothing ==
    GetReturnedNone => this = pre

\* none for a missing contributor, some rows being present
C5_Witness ==
    /\ GetReturnedNone
    /\ pre.cur_init
    /\ pre.m_cur_dst_y < pre.m_dst_subrect_end_y
    /\ hist.accepted # {}
    /\ hist.out # <<>>

\* C6: the status is latched: once non-ok, it is non-ok in every later
\* state, after any sequence of put_line and get_line calls.
C6_StatusLatched ==
    [][this.m_status # STATUS_OKAY => this'.m_status # STATUS_OKAY]_vars

\* a row is produced, and a row is accepted, with a non-ok status
C6_Witness ==
    /\ pre # NULL /\ pre.m_status = STATUS_SCAN_BUFFER_FULL
    /\ this.m_status = STATUS_SCAN_BUFFER_FULL
    /\ ret.op = "put_line" /\ ret.ok
    /\ hist.out # <<>>

\* C7: after put_line has failed with scan-buffer-full, every later
\* put_line call returns failure, whatever get_line calls are made in
\* between.  (Stated for the runs in which the constructor returned with
\* status ok and no allocation of put_line failed.)
C7_FailureReported ==
    (/\ ConstructedOk /\ ~hist.malloc_failed
     /\ hist.full_seen /\ ret.op = "put_line") => ~ret.ok

(***************************************************************************)
(* The pure functions: the boundary resolver reflect() and the table       *)
(* builder make_clist(), each applied once to inputs drawn by the initial  *)
(* state.                                                                  *)
(***************************************************************************)
\* bounds of the inputs
MaxIndex == 6
MaxExtent == 4

\* -2147483648.0f
F_INT_MIN == IntToF(INT_MIN)

ReflectInputs ==
    { [fn |-> "reflect", j |-> j, src_w |-> n, boundary_op |-> op] :
        j \in (-MaxIndex .. MaxIndex) \cup {INT_MIN, INT_MAX},
        n \in 1 .. MaxExtent, op \in Boundary_Op }

ClistInputs ==
    { [fn |-> "make_clist", src_w |-> sw, dst_w |-> dw, boundary_op |-> op,
       filter |-> g_filters[f].name, filter_support |-> g_filters[f].support,
       filter_scale |-> sc, src_ofs |-> ofs] :
        sw \in 1 .. MaxExtent, dw \in 1 .. MaxExtent, op \in Boundary_Op,
        f \in 1 .. NUM_FILTERS, sc \in {F_1, F_0_5}, ofs \in {F_0, F_0_5} }
    \cup
    { [fn |-> "make_clist", src_w |-> sw, dst_w |-> 1, boundary_op |-> op,
       filter |-> "box", filter_support |-> BOX_FILTER_SUPPORT,
       filter_scale |-> F_1, src_ofs |-> F_INT_MIN] :
        sw \in 1 .. MaxExtent, op \in Boundary_Op }

\* the largest value of unsigned short, the type of Contrib::pixel
USHRT_MAX == 65535

\* single lists of tables too long to build whole: destination sample i of
\* an axis of n samples resampled to n samples, n around USHRT_MAX
ListInputs ==
    { [fn |-> "Contrib_List", src_w |-> n, dst_w |-> n, boundary_op |-> op,
       filter |-> "box", filter_support |-> BOX_FILTER_SUPPORT,
       filter_scale |-> F_1, src_ofs |-> F_0, i |-> i] :
        n \in {USHRT_MAX, USHRT_MAX + 2}, i \in {0, USHRT_MAX - 1, USHRT_MAX + 1},
        op \in Boundary_Op }
    \cup
    { [fn |-> "Contrib_List", src_w |-> n, dst_w |-> 2 * n, boundary_op |-> op,
       filter |-> "tent", filter_support |-> TENT_FILTER_SUPPORT,
       filter_scale |-> F_1, src_ofs |-> F_0, i |-> i] :
        n \in (1 .. MaxExtent) \cup {USHRT_MAX + 2},
        i \in (0 .. 2 * MaxExtent - 1) \cup (2 * USHRT_MAX - 2 .. 2 * USHRT_MAX + 3),
        op \in Boundary_Op }

\* the single-precision numbers next above and next below a positive f
FSucc(f) == IF f[1] + 1 = Pow2(MantBits) THEN <<Pow2(MantBits - 1), f[2] + 1>>
            ELSE <<f[1] + 1, f[2]>>
FPred(f) == IF f[1] = Pow2(MantBits - 1) THEN <<Pow2(MantBits) - 1, f[2] - 1>>
            ELSE <<f[1] - 1, f[2]>>

\* arguments of a kernel: 0, and around each support radius the radius,
\* its neighbours, its half and its double, of either sign
KernelArgs ==
    {F_0} \cup
    UNION { {x, FNeg(x)} : x \in
              UNION { {S, FSucc(S), FPred(S), FMul(F_0_5, S), FMul(F_2, S)} :
                        S \in {g_filters[f].support : f \in 1 .. NUM_FILTERS} } }

KernelInputs ==
    { [fn |-> "filter", name |-> g_filters[f].name,
       support |-> g_filters[f].support, t |-> t] :
        f \in 1 .. NUM_FILTERS, t \in KernelArgs }

InitFn ==
    /\ args \in ReflectInputs \cup ClistInputs
                \cup {a \in ListInputs : a.i < a.dst_w} \cup KernelInputs
    /\ this = NULL
    /\ pre = NULL
    /\ ret = NoRet
    /\ hist = NoHist
    /\ proto = NoProto
    /\ aborted = "no"
    /\ mem = NULL

CallReflect ==
    /\ args.fn = "reflect" /\ ret = NoRet
    /\ \E o \in NegOutcomes :
          LET trap == o = "trap" /\ reflect_overflows(args.j, args.boundary_op) IN
          /\ ret' = [op |-> "reflect",
                     val |-> reflect(args.j, args.src_w, args.boundary_op),
                     fault |-> IF trap THEN "trap" ELSE "none"]
          /\ aborted' = IF trap THEN "trap" ELSE aborted
    /\ UNCHANGED <<this, pre, args, hist, proto, mem>>

CallMakeClist ==
    /\ args.fn = "make_clist" /\ ret = NoRet
    /\ \E o \in NegOutcomes :
          Bind(/\ o = "trap"
               /\ make_clist_overflows(args.src_w, args.dst_w, args.boundary_op,
                      args.filter, args.filter_support, args.filter_scale,
                      args.src_ofs),
               LAMBDA trap :
          /\ ret' = [op |-> "make_clist",
                     val |-> IF trap THEN NULL
                             ELSE make_clist(args.src_w, args.dst_w, args.boundary_op,
                                      args.filter, args.filter_support,
                                      args.filter_scale, args.src_ofs),
                     fault |-> IF trap THEN "trap" ELSE "none"]
          /\ aborted' = IF trap THEN "trap" ELSE aborted)
    /\ UNCHANGED <<this, pre, args, hist, proto, mem>>

\* the list make_clist builds for destination sample args.i
CallContribList ==
    /\ args.fn = "Contrib_List" /\ ret = NoRet
    /\ \E o \in NegOutcomes :
          Bind(Contrib_List(make_clist_ctx(args.src_w, args.dst_w, args.boundary_op,
                                args.filter, args.filter_support,
                                args.filter_scale, args.src_ofs),
                            args.i),
               LAMBDA r :
          LET trap == o = "trap" /\ r.ovf IN
          /\ ret' = [op |-> "Contrib_List",
                     val |-> IF trap \/ ~r.ok THEN NULL ELSE r.p,
                     fault |-> IF trap THEN "trap" ELSE "none"]
          /\ aborted' = IF trap THEN "trap" ELSE aborted)
    /\ UNCHANGED <<this, pre, args, hist, proto, mem>>

\* ( *Pfilter )( t )
CallFilter ==
    /\ args.fn = "filter" /\ ret = NoRet
    /\ ret' = [op |-> "filter", val |-> Pfilter(args.name, args.t), fault |-> "none"]
    /\ UNCHANGED <<this, pre, args, hist, proto, aborted, mem>>

NextFn == CallReflect \/ CallMakeClist \/ CallContribList \/ CallFilter

SpecFn == InitFn /\ [][NextFn]_vars

\* make_clist returned a table
TableBuilt == ret.op = "make_clist" /\ ret.fault = "none" /\ ret.val # NULL

\* the weights of list p added up in single precision, in list order
RECURSIVE sum_of_weights(_, _)
sum_of_weights(p, k) ==
    IF k = 0 THEN F_0 ELSE FAdd(sum_of_weights(p, k - 1), p[k].weight)

\* 2^-23, the spacing of single-precision numbers at 1.0
FLT_EPSILON == <<8388608, -46>>

\* |sum of p's weights - 1.0| <= Len(p) * FLT_EPSILON
SumsToOneWithin(p) ==
    FLe(F_abs(FSub(sum_of_weights(p, Len(p)), F_1)),
        FMul(IntToF(Len(p)), FLT_EPSILON))

C9_IndexInRange ==
    /\ ret.op = "reflect" =>
          (ret.fault = "none" /\ ret.val \in 0 .. args.src_w - 1)
    /\ ret.op = "make_clist" =>
          /\ ret.fault = "none"
          /\ \A i \in DOMAIN ret.val : \A k \in 1 .. Len(ret.val[i]) :
                ret.val[i][k].pixel \in 0 .. args.src_w - 1

\* the arguments of an identity resample of one axis
IdentityAxis(a) ==
    /\ a.src_w = a.dst_w /\ a.boundary_op = BOUNDARY_CLAMP
    /\ a.filter = "box" /\ a.filter_scale = F_1 /\ a.src_ofs = F_0

\* C11: in an identity resample (source extent = destination extent, box
\* kernel, zero offset, unit scale, clamp boundary) the contributor list of
\* every destination sample i has exactly one contributor, source index i
\* with weight 1.0.
C11_IdentityLists ==
    /\ (ret.op = "make_clist" /\ IdentityAxis(args)) =>
          /\ TableBuilt
          /\ \A i \in DOMAIN ret.val : ret.val[i] = <<[pixel |-> i, weight |-> F_1]>>
    /\ (ret.op = "Contrib_List" /\ IdentityAxis(args)) =>
          ret.val = <<[pixel |-> args.i, weight |-> F_1]>>

\* the arguments of a 2x upsample of one axis with the tent kernel
TentUpsample2x(a) ==
    /\ a.dst_w = 2 * a.src_w /\ a.boundary_op = BOUNDARY_CLAMP
    /\ a.filter = "tent" /\ a.filter_scale = F_1 /\ a.src_ofs = F_0

\* the source indices of list p
Pixels(p) == {p[k].pixel : k \in 1 .. Len(p)}

\* the indices of list q are not below those of list p, the list of the
\* destination sample before: neither the least nor the greatest decreases
NonDecreasing(p, q) ==
    /\ \A x \in Pixels(p) : \E y \in Pixels(q) : x <= y
    /\ \A y \in Pixels(q) : \E x \in Pixels(p) : x <= y

\* at most two contributors, whose weights sum to 1.0
TwoSumToOne(p) == Len(p) <= 2 /\ sum_of_weights(p, Len(p)) = F_1

\* C13: in a 2x upsample (destination extent = 2 * source extent, tent
\* kernel, clamp boundary, unit scale, zero offset) every destination
\* sample has at most 2 contributors, whose weights sum to 1.0, and the
\* contributors' source indices do not decrease as the destination
\* coordinate increases.
C13_TentUpsample ==
    /\ (ret.op = "make_clist" /\ TentUpsample2x(args)) =>
          /\ TableBuilt
          /\ \A i \in DOMAIN ret.val : TwoSumToOne(ret.val[i])
          /\ \A i \in DOMAIN ret.val :
                i > 0 => NonDecreasing(ret.val[i - 1], ret.val[i])
    /\ (ret.op = "Contrib_List" /\ TentUpsample2x(args)) =>
          /\ ret.val # NULL
          /\ TwoSumToOne(ret.val)
          /\ args.i > 0 =>
                NonDecreasing(
                    Contrib_List(make_clist_ctx(args.src_w, args.dst_w,
                        args.boundary_op, args.filter, args.filter_support,
                        args.filter_scale, args.src_ofs), args.i - 1).p,
                    ret.val)

\* the periods k of the wrap claim
MaxPeriods == 2

\* j + k * n is an int
IsInt(j, k, n) ==
    IF k >= 0 THEN j <= INT_MAX - k * n ELSE j >= INT_MIN - k * n

\* C14: under the wrap policy, for every extent n >= 1 and all integers j
\* and k, the resolver returns for j what it returns for j + k * n, and
\* for j in [0, n) it returns j.
C14_WrapPeriodic ==
    (ret.op = "reflect" /\ args.boundary_op = BOUNDARY_WRAP) =>
        /\ ret.fault = "none"
        /\ \A k \in -MaxPeriods .. MaxPeriods :
              IsInt(args.j, k, args.src_w) =>
                  ret.val = reflect(args.j + k * args.src_w, args.src_w, BOUNDARY_WRAP)
        /\ args.j \in 0 .. args.src_w - 1 => ret.val = args.j

\* |j| mod n for j < 0, without forming |j|
AbsMod(j, n) == (n - (j % n)) % n

\* the last call resolved a negative index under the wrap policy
WrapOfNegative ==
    /\ ret.op = "reflect"
    /\ args.boundary_op = BOUNDARY_WRAP
    /\ args.j < 0

\* C22: under the wrap policy, every negative index j is resolved against
\* extent n to n - (|j| mod n).
C22_WrapNegative ==
    WrapOfNegative =>
        /\ ret.fault = "none"
        /\ ret.val = args.src_w - AbsMod(args.j, args.src_w)

DistinctPixels(p) ==
    \A k1 \in 1 .. Len(p) : \A k2 \in 1 .. Len(p) :
        k1 # k2 => p[k1].pixel # p[k2].pixel

\* C17: within any one contributor list built by make_clist the source
\* indices are pairwise distinct, whatever the boundary policy, the
\* geometry and the kernel.
C17_DistinctIndices ==
    /\ TableBuilt => \A i \in DOMAIN ret.val : DistinctPixels(ret.val[i])
    /\ (ret.op = "Contrib_List" /\ ret.val # NULL) => DistinctPixels(ret.val)

(***************************************************************************)
(* The constructor applied to arguments drawn by the initial state, the    *)
(* sub-rectangle over the whole range of unsigned int.                     *)
(***************************************************************************)
\* bound of the destination extents
CtorMaxDst == 2

SubrectValues == {U32_of(0), U32_of(1), U32(32768, 0), U32(65535, 65535)}

CtorInputs ==
    { [fn |-> "Resampler", alloc_fail |-> f,
       a |-> CtorArgs(1, 1, dw, dh, BOUNDARY_CLAMP, "box", sx, sy, sw, sh)] :
        dw \in 0 .. CtorMaxDst, dh \in 1 .. CtorMaxDst,
        sx \in SubrectValues, sy \in SubrectValues,
        sw \in SubrectValues, sh \in SubrectValues,
        f \in {"none", "dst_buf", "tmp_buf"} }

InitCtor ==
    /\ args \in CtorInputs
    /\ this = NULL
    /\ pre = NULL
    /\ ret = NoRet
    /\ hist = NoHist
    /\ proto = NoProto
    /\ aborted = "no"
    /\ mem = NULL

\* the constructor subtracts the sub-rectangle's bounds to size m_Pdst_buf
Resampler_overflows(a) ==
    LET t == Resampler_begin(a)
    IN  sub_overflows(t.m_dst_subrect_end_x, t.m_dst_subrect_beg_x)

Construct ==
    /\ ret = NoRet
    /\ \E o \in NegOutcomes :
          LET a     == args.a
              fault == IF ~(a.src_w > 0 /\ a.src_h > 0 /\ a.dst_w > 0 /\ a.dst_h > 0)
                       THEN "assert"
                       ELSE IF o = "trap" /\ Resampler_overflows(a) THEN "trap"
                       ELSE "none"
          IN  /\ ret' = [op |-> "Resampler", fault |-> fault]
              /\ aborted' = IF fault = "none" THEN aborted ELSE fault
              /\ this' = IF fault = "none" THEN Resampler(a, args.alloc_fail) ELSE this
    /\ UNCHANGED <<pre, args, hist, proto, mem>>

NextCtor == Construct

SpecCtor == InitCtor /\ [][NextCtor]_vars

\* a + b <= n for unsigned a, b and an int n >= 0, without wrapping
U32_sum_le(a, b, n) ==
    LET lo == a[2] + b[2]
        hi == a[1] + b[1] + (lo \div 65536)
    IN  U32_le(<<hi, lo % 65536>>, U32_of(n))

\* the sub-rectangle passed to the constructor fits in the destination
SubrectFits ==
    /\ U32_sum_le(args.a.dst_subrect_x, args.a.dst_subrect_w, args.a.dst_w)
    /\ U32_sum_le(args.a.dst_subrect_y, args.a.dst_subrect_h, args.a.dst_h)

\* C10: a destination sub-rectangle that does not fit within the full
\* destination (x + w > dst_w or y + h > dst_h, for any unsigned 32-bit
\* values) is ignored: the engine uses begin (0, 0) and end (dst_w, dst_h).
C10_UnfitSubrectIgnored ==
    (ret.op = "Resampler" /\ ret.fault = "none" /\ ~SubrectFits) =>
        /\ this.m_dst_subrect_beg_x = 0
        /\ this.m_dst_subrect_beg_y = 0
        /\ this.m_dst_subrect_end_x = args.a.dst_w
        /\ this.m_dst_subrect_end_y = args.a.dst_h

(***************************************************************************)
(* The engine with the samples: any sequence of put_line and get_line      *)
(* calls on an object constructed with status okay, every allocation of a  *)
(* line buffer succeeding.  mem.src are the rows put_line accepted,        *)
(* mem.scan_buf_l the lines of the slots, mem.Ptmp_buf and mem.Pdst_buf    *)
(* the contents of the two buffers, mem.unclamped the line as it was       *)
(* before resample_y clamped it.                                           *)
(***************************************************************************)
MaxDataW == 2
MaxDataH == 2

F_m0_5 == FNeg(F_0_5)

Samples == <<F_m0_5, F_0_5, F_1_5>>

\* the source rows a caller passes to put_line
SampleLines(w) ==
    { [k \in 1 .. w |-> Samples[((k + s) % Len(Samples)) + 1]] : s \in 1 .. Len(Samples) }

\* what malloc returns: n samples that hold anything
Uninitialised(n) == { [k \in 1 .. n |-> f] : f \in {F_0, F_m1e20} }

\* the output ranges <<sample_low, sample_high>>
ClampRanges == {<<F_0, F_1>>, <<F_0, F_0>>, <<F_1, F_0>>}

DataArgs ==
    { [CtorArgs(sw, sh, dw, dh, op, nm, U32_of(r[1]), U32_of(0),
                U32_of(r[2]), U32_of(r[2] * dh))
         EXCEPT !.sample_low = c[1], !.sample_high = c[2]] :
        sw \in 1 .. MaxDataW, sh \in 1 .. MaxDataH,
        dw \in 1 .. MaxDataW, dh \in 1 .. MaxDataH,
        op \in {BOUNDARY_CLAMP}, nm \in EngineFilters,
        r \in {<<0, 0>>, <<1, 1>>}, c \in ClampRanges }

InitData ==
    /\ \E a \in DataArgs :
          /\ args = [fn |-> "Resampler", a |-> a, alloc_fail |-> "none"]
          /\ this = Resampler(a, "none")
    /\ this.m_status = STATUS_OKAY
    /\ \E tmp \in Uninitialised(this.m_intermediate_x),
          dst \in Uninitialised(this.m_dst_subrect_end_x - this.m_dst_subrect_beg_x) :
          mem = [src |-> <<>>, scan_buf_l |-> [i \in Slots |-> NULL],
                 Ptmp_buf |-> IF this.m_delay_x_resample THEN tmp ELSE NULL,
                 Pdst_buf |-> dst, unclamped |-> NULL]
    /\ pre = NULL
    /\ ret = [op |-> "Resampler"]
    /\ hist = NoHist
    /\ proto = NoProto
    /\ aborted = "no"

\* put_line( Psrc )
DataPut ==
    /\ aborted = "no"
    /\ \E Psrc \in SampleLines(this.m_resample_src_w) :
          /\ PutLineCall(this, TRUE)
          /\ mem' = IF ~ret'.ok THEN mem
                    ELSE IF this.m_Psrc_y_count[this.m_cur_src_y] = 0
                    THEN [mem EXCEPT !.src = Append(@, Psrc)]
                    ELSE [mem EXCEPT
                            !.src = Append(@, Psrc),
                            !.scan_buf_l[find_slot(this.m_Pscan_buf.scan_buf_y, -1)] =
                                put_line_samples(this, Psrc)]
    /\ UNCHANGED proto

\* get_line()
DataGet ==
    /\ aborted = "no"
    /\ GetLineCall(this, FALSE)
    /\ mem' = IF ret'.row = -1 THEN mem
              ELSE Bind(resample_y_buffers(this, mem.scan_buf_l, mem.Ptmp_buf,
                                           mem.Pdst_buf),
                        LAMBDA b : [mem EXCEPT !.Ptmp_buf = b.Ptmp_buf,
                                               !.Pdst_buf = b.Pdst_buf,
                                               !.unclamped = b.unclamped])
    /\ UNCHANGED proto

NextData == DataPut \/ DataGet

SpecData == InitData /\ [][NextData]_vars

\* get_line returned a row: it is mem.Pdst_buf
RowReturned == ret.op = "get_line" /\ ret.fault = "none" /\ ret.row # -1

\* C12: when sample_low < sample_high every sample of every row get_line
\* returns lies in [sample_low, sample_high], the accumulated values out
\* of the range being replaced by the nearest bound and those in the range
\* unchanged; when sample_low >= sample_high the row is the accumulated
\* values, unmodified.
C12_OutputClamped ==
    RowReturned =>
        LET lo == this.m_lo
            hi == this.m_hi
        IN  /\ Len(mem.Pdst_buf) = Len(mem.unclamped)
            /\ \A k \in 1 .. Len(mem.Pdst_buf) :
                  LET v == mem.unclamped[k]
                      f == mem.Pdst_buf[k]
                  IN  IF FLt(lo, hi)
                      THEN /\ FLe(lo, f) /\ FLe(f, hi)
                           /\ FLt(v, lo) => f = lo
                           /\ FGt(v, hi) => f = hi
                           /\ (FLe(lo, v) /\ FLe(v, hi)) => f = v
                      ELSE f = v

\* a row was returned with one sample raised to the low bound and one
\* lowered to the high bound
C12_Witness ==
    /\ RowReturned
    /\ FLt(this.m_lo, this.m_hi)
    /\ \E k \in 1 .. Len(mem.unclamped) : FLt(mem.unclamped[k], this.m_lo)
    /\ \E k \in 1 .. Len(mem.unclamped) : FGt(mem.unclamped[k], this.m_hi)
    /\ mem.Pdst_buf # mem.unclamped

(***************************************************************************)
(* The life of an object: the constructor, any sequence of put_line and    *)
(* get_line calls, the destructor.  The caller may supply either axis      *)
(* table; mem.freed are the blocks the destructor released, mem.freed_l    *)
(* the slots whose lines it released.                                      *)
(***************************************************************************)
MaxLifeH == 2

\* a table a caller supplies: the one another engine built for the axis
CallerTable(src_w, dst_w) ==
    make_clist(src_w, dst_w, BOUNDARY_CLAMP, "box", BOX_FILTER_SUPPORT, F_1, F_0)

\* filter_scale and src_ofs of an axis: <<0.5, 0.5>> leaves the box kernel
\* of a 1 -> 1 axis without contributors
AxisScales == {<<F_1, F_0>>, <<F_0_5, F_0_5>>}

LifeInputs ==
    { [fn |-> "Resampler", alloc_fail |-> f,
       a |-> [CtorArgs(1, sh, 1, dh, BOUNDARY_CLAMP, nm,
                       U32_of(0), U32_of(0), U32_of(0), U32_of(0))
                EXCEPT !.Pclist_x = IF cx THEN CallerTable(1, 1) ELSE NULL,
                       !.Pclist_y = IF cy THEN CallerTable(sh, dh) ELSE NULL,
                       !.filter_x_scale = xs[1], !.src_x_ofs = xs[2],
                       !.filter_y_scale = ys[1], !.src_y_ofs = ys[2]]] :
        sh \in 1 .. MaxLifeH, dh \in 1 .. MaxLifeH, nm \in {"box", "tent", "bogus"},
        cx \in BOOLEAN, cy \in BOOLEAN, xs \in AxisScales, ys \in AxisScales,
        f \in AllocSites }

InitLife ==
    /\ args \in LifeInputs
    /\ this = NULL
    /\ pre = NULL
    /\ ret = NoRet
    /\ hist = NoHist
    /\ proto = NoProto
    /\ aborted = "no"
    /\ mem = [destroyed |-> FALSE, freed |-> {}, freed_l |-> {}]

LifePut == this # NULL /\ ~mem.destroyed /\ PutLine

LifeGet == this # NULL /\ ~mem.destroyed /\ GetLine

\* delete
Destroy ==
    /\ aborted = "no" /\ this # NULL /\ ~mem.destroyed
    /\ pre' = this
    /\ this' = Resampler_dtor(this).this
    /\ mem' = [destroyed |-> TRUE, freed |-> Resampler_dtor(this).freed,
               freed_l |-> Resampler_dtor(this).freed_l]
    /\ ret' = [op |-> "~Resampler"]
    /\ UNCHANGED <<args, hist, proto, aborted>>

NextLife == Construct \/ LifePut \/ LifeGet \/ Destroy

SpecLife == InitLife /\ [][NextLife]_vars

\* the constructor called make_clist for the X (Y) axis and it returned a
\* table
BuiltX ==
    /\ args.a.Pclist_x = NULL
    /\ args.alloc_fail \notin {"dst_buf", "clist_x"}
    /\ find_filter(args.a.Pfilter_name) <= NUM_FILTERS
    /\ make_clist(args.a.src_w, args.a.dst_w, args.a.boundary_op,
                  g_filters[find_filter(args.a.Pfilter_name)].name,
                  g_filters[find_filter(args.a.Pfilter_name)].support,
                  args.a.filter_x_scale, args.a.src_x_ofs) # NULL

BuiltY ==
    /\ args.a.Pclist_y = NULL
    /\ args.alloc_fail \notin {"dst_buf", "clist_y"}
    /\ find_filter(args.a.Pfilter_name) <= NUM_FILTERS
    /\ args.a.Pclist_x # NULL \/ BuiltX
    /\ make_clist(args.a.src_h, args.a.dst_h, args.a.boundary_op,
                  g_filters[find_filter(args.a.Pfilter_name)].name,
                  g_filters[find_filter(args.a.Pfilter_name)].support,
                  args.a.filter_y_scale, args.a.src_y_ofs) # NULL

\* C15: the destructor, at whatever point of the object's life and also
\* after a failed construction, releases an axis table exactly when the
\* engine built it itself (make_clist succeeded); a table the caller
\* supplied, X or Y, is never released.
C15_TeardownOwnership ==
    mem.destroyed =>
        /\ "m_Pclist_x" \in mem.freed <=> BuiltX
        /\ "m_Pclist_y" \in mem.freed <=> BuiltY
        /\ args.a.Pclist_x # NULL => "m_Pclist_x" \notin mem.freed
        /\ args.a.Pclist_y # NULL => "m_Pclist_y" \notin mem.freed

\* an engine with the caller's X table and its own Y table was destroyed
\* after it had accepted a row: Y was released, X was not
C15_Witness ==
    /\ mem.destroyed
    /\ args.a.Pclist_x # NULL /\ pre.m_Pclist_x = args.a.Pclist_x
    /\ "m_Pclist_y" \in mem.freed /\ "m_Pclist_x" \notin mem.freed
    /\ hist.accepted # {}

\* the constructor calls make_clist for the X (Y) axis
ReachedX ==
    /\ args.a.Pclist_x = NULL
    /\ args.alloc_fail # "dst_buf"
    /\ find_filter(args.a.Pfilter_name) <= NUM_FILTERS

ReachedY ==
    /\ args.a.Pclist_y = NULL
    /\ args.alloc_fail # "dst_buf"
    /\ find_filter(args.a.Pfilter_name) <= NUM_FILTERS
    /\ args.a.Pclist_x # NULL \/ BuiltX

\* some destination sample of the axis is left without contributors
SomeListEmpty(src_w, dst_w, filter_scale, src_ofs) ==
    \E i \in 0 .. dst_w - 1 :
        Contrib_List(make_clist_ctx(src_w, dst_w, args.a.boundary_op,
                         g_filters[find_filter(args.a.Pfilter_name)].name,
                         g_filters[find_filter(args.a.Pfilter_name)].support,
                         filter_scale, src_ofs), i).p = <<>>

\* every list of table Pclist has a contributor
NoListEmpty(Pclist) == \A i \in DOMAIN Pclist : Len(Pclist[i]) >= 1

\* C18: every table make_clist returns has a non-empty list for every
\* destination coordinate; if a coordinate is left with no contributor the
\* build fails, and the constructor then reports the out-of-memory status,
\* not a status of its own.  (Stated of the object as the constructor
\* returns it.)
C18_EmptyListFailsBuild ==
    (ret.op = "Resampler" /\ ret.fault = "none") =>
        /\ BuiltX => (this.m_Pclist_x # NULL /\ NoListEmpty(this.m_Pclist_x))
        /\ BuiltY => (this.m_Pclist_y # NULL /\ NoListEmpty(this.m_Pclist_y))
        /\ (ReachedX /\ SomeListEmpty(args.a.src_w, args.a.dst_w,
                                      args.a.filter_x_scale, args.a.src_x_ofs)) =>
              (this.m_Pclist_x = NULL /\ this.m_status = STATUS_OUT_OF_MEMORY)
        /\ (ReachedY /\ SomeListEmpty(args.a.src_h, args.a.dst_h,
                                      args.a.filter_y_scale, args.a.src_y_ofs)) =>
              (this.m_Pclist_y = NULL /\ this.m_status = STATUS_OUT_OF_MEMORY)

\* no allocation failed, the X table was built and a destination row was
\* left without contributors: the constructor reported out of memory
C18_Witness ==
    /\ this # NULL /\ ret.op = "Resampler" /\ args.alloc_fail = "none"
    /\ BuiltX /\ NoListEmpty(this.m_Pclist_x)
    /\ ReachedY /\ SomeListEmpty(args.a.src_h, args.a.dst_h,
                                 args.a.filter_y_scale, args.a.src_y_ofs)
    /\ this.m_Pclist_y = NULL /\ this.m_status = STATUS_OUT_OF_MEMORY

(***************************************************************************)
(* The scan buffer and the reference counts of the engine (Spec).          *)
(***************************************************************************)
\* the source rows a slot of the scan buffer holds
RowsHeld(t) ==
    {t.m_Pscan_buf.scan_buf_y[i] : i \in Slots} \ {-1}

\* C19: in every reachable state with status ok, a scan-buffer slot holds
\* source row r exactly when r has been accepted by put_line and the
\* reference count of r is greater than 0, and the presence flag of r is
\* then true.
C19_SlotIffLive ==
    (ConstructedOk /\ this.m_status = STATUS_OKAY) =>
        \A r \in 0 .. this.m_resample_src_h - 1 :
            /\ r \in RowsHeld(this) <=>
                  (r \in hist.accepted /\ this.m_Psrc_y_count[r] > 0)
            /\ r \in RowsHeld(this) => this.m_Psrc_y_flag[r]

\* with status ok, one accepted row is held in a slot and another has been
\* released by get_line
C19_Witness ==
    /\ ConstructedOk /\ this.m_status = STATUS_OKAY
    /\ \E r \in RowsHeld(this) : this.m_Psrc_y_count[r] > 0 /\ this.m_Psrc_y_flag[r]
    /\ \E r \in hist.accepted :
          /\ r \notin RowsHeld(this) /\ this.m_Psrc_y_count[r] = 0
          /\ \E k \in 1 .. Len(hist.out) : r \in Contributors(this, hist.out[k])

\* the destination rows of the sub-rectangle not yet produced whose Y
\* contributor list contains source row r
PendingRows(t, r) ==
    {y \in t.m_cur_dst_y .. t.m_dst_subrect_end_y - 1 : r \in Contributors(t, y)}

\* C20: in every reachable state the reference count of each source row r
\* is the number of destination rows of the destination sub-rectangle that
\* are not yet produced and whose Y contributor list contains r.  (Stated
\* for the states after a constructor that returned with status ok.)
C20_CountIsPendingRows ==
    ConstructedOk =>
        \A r \in 0 .. this.m_resample_src_h - 1 :
            this.m_Psrc_y_count[r] = Cardinality(PendingRows(this, r))

\* the destination rows, of the whole image, whose Y contributor list
\* contains source row r
Dependents(t, r) ==
    {y \in 0 .. t.m_resample_dst_h - 1 : r \in Contributors(t, y)}

\* the last call was put_line for a source row that no destination row
\* depends on
PutSkippedRow ==
    /\ ConstructedOk
    /\ ret.op = "put_line"
    /\ pre.m_cur_src_y < pre.m_resample_src_h
    /\ Dependents(pre, pre.m_cur_src_y) = {}

\* C21: put_line called for a source row (next_source_row < src_h) that has
\* zero dependent destination rows returns success, advances
\* next_source_row by one and leaves every scan-buffer slot, every presence
\* flag and the status unchanged, also when the scan buffer is full.
C21_SkippedRowTakesNoSlot ==
    PutSkippedRow =>
        /\ ret.fault = "none" /\ ret.ok
        /\ this.m_cur_src_y = pre.m_cur_src_y + 1
        /\ this.m_Pscan_buf = pre.m_Pscan_buf
        /\ this.m_Psrc_y_flag = pre.m_Psrc_y_flag
        /\ this.m_status = pre.m_status

\* a row without dependents is skipped while every slot is occupied
C21_Witness ==
    /\ PutSkippedRow
    /\ ret.ok
    /\ \A i \in Slots : pre.m_Pscan_buf.scan_buf_y[i] # -1
    /\ this.m_cur_src_y = pre.m_cur_src_y + 1

\* get_line has produced the last destination row of the sub-rectangle,
\* the status being ok
JobDone ==
    /\ ConstructedOk /\ this.m_status = STATUS_OKAY
    /\ hist.out # <<>>
    /\ hist.out[Len(hist.out)] = this.m_dst_subrect_end_y - 1
    /\ this.m_cur_dst_y = this.m_dst_subrect_end_y

\* C24: no cached row outlives the job: for any destination sub-rectangle,
\* once get_line has produced the last destination row of the
\* sub-rectangle, every scan-buffer slot is empty and the reference count
\* of every source row is zero.
C24_NothingCachedAfterJob ==
    JobDone =>
        /\ \A i \in Slots : this.m_Pscan_buf.scan_buf_y[i] = -1
        /\ \A r \in 0 .. this.m_resample_src_h - 1 : this.m_Psrc_y_count[r] = 0

\* the last call was get_line, and it found the presence flag of every
\* contributor of the pending destination row true
Accumulated ==
    /\ ConstructedOk
    /\ ret.op = "get_line"
    /\ pre.m_cur_dst_y # pre.m_dst_subrect_end_y
    /\ \A r \in Contributors(pre, pre.m_cur_dst_y) : pre.m_Psrc_y_flag[r]

\* from contributor i (p[i + 1]) on, the loop of resample_y finds each
\* contributor's row in exactly one slot, with a count of at least 1
RECURSIVE contributors_found(_, _, _)
contributors_found(t, p, i) ==
    IF i >= Len(p) THEN TRUE
    ELSE
    LET pixel == p[i + 1].pixel IN
    /\ Cardinality({j \in Slots : t.m_Pscan_buf.scan_buf_y[j] = pixel}) = 1
    /\ t.m_Psrc_y_count[pixel] >= 1
    /\ contributors_found(resample_y_loop(t, <<p[i + 1]>>, 0, TRUE).this, p, i + 1)

\* no reference count is below zero
CountsNotNegative ==
    ConstructedOk =>
        \A r \in 0 .. this.m_resample_src_h - 1 : this.m_Psrc_y_count[r] >= 0

MaxOrderW == 3
MaxOrderH == 2

OrderInputs ==
    { [fn |-> "Resampler", alloc_fail |-> "none",
       a |-> CtorArgs(sw, sh, dw, dh, BOUNDARY_CLAMP, nm,
                      U32_of(0), U32_of(0), U32_of(w), U32_of(IF w = 0 THEN 0 ELSE dh))] :
        sw \in 1 .. MaxOrderW, dw \in 1 .. MaxOrderW,
        sh \in 1 .. MaxOrderH, dh \in 1 .. MaxOrderH,
        nm \in EngineFilters, w \in 0 .. 1 }

InitOrder ==
    /\ args \in OrderInputs
    /\ this = NULL
    /\ pre = NULL
    /\ ret = NoRet
    /\ hist = NoHist
    /\ proto = NoProto
    /\ aborted = "no"
    /\ mem = [destroyed |-> FALSE, freed |-> {}, freed_l |-> {}]

SpecOrder == InitOrder /\ [][NextLife]_vars

\* the constructor has chosen the order of the axes of a live object
OrderChosen == this # NULL /\ this.cur_init /\ ~mem.destroyed

\* the width of the destination sub-rectangle
SubrectWidth(t) == t.m_dst_subrect_end_x - t.m_dst_subrect_beg_x

\* the smaller of the two candidate widths of a cached row
LesserWidth(t) ==
    IF t.m_resample_src_w < SubrectWidth(t) THEN t.m_resample_src_w
    ELSE SubrectWidth(t)

\* on a tie of the costs the cached rows have the smaller width
TieBuffersLess ==
    (OrderChosen /\ xy_ops(this) = yx_ops(this)) =>
        /\ this.m_intermediate_x =
              IF this.m_delay_x_resample THEN this.m_resample_src_w
              ELSE SubrectWidth(this)
        /\ this.m_intermediate_x = LesserWidth(this)

\* put_line and get_line leave the order and the width alone
OrderKept ==
    (OrderChosen /\ ret'.op \in {"put_line", "get_line"}) =>
        /\ this'.m_delay_x_resample = this.m_delay_x_resample
        /\ this'.m_intermediate_x = this.m_intermediate_x

\* C23: when the estimated costs of X-then-Y and Y-then-X are exactly
\* equal, the order chosen at construction is the one that buffers less
\* data: the width of the cached intermediate rows (the source width when X
\* is delayed, the width of the destination sub-rectangle otherwise) is the
\* smaller of the two candidate widths; put_line and get_line never change
\* the choice or the intermediate width.
C23_TieBreakBuffersLess ==
    []TieBuffersLess /\ [][OrderKept]_vars

====
